---- MODULE Spec2Model ----
(***************************************************************************)
(* A model of scripts/cpa_witness2test.py: the witness validator that      *)
(* parses a property specification, lets CPAchecker generate test          *)
(* harnesses, compiles and runs each harness and reduces the per-harness   *)
(* results to one verification result.                                      *)
(*                                                                         *)
(* Texts are sequences of chunks.  A chunk is an atomic piece of text; the *)
(* diagnostic messages the script looks for are the chunk sequences below, *)
(* and "x in y" on Python strings is modelled as contiguous containment of *)
(* chunk sequences.                                                        *)
(***************************************************************************)
EXTENDS Integers, Sequences, FiniteSets, TLC

VARIABLES
    pc,                     \* position of the control flow of the script
    exc,                    \* the exception in flight, or None
    specification,          \* run(): list of properties returned by get_spec
    created_harnesses,      \* run(): list returned by find_harnesses
    idx,                    \* run(): position of the for loop in created_harnesses
    final_result,
    violated_property,
    successful_harness,
    iter_count,
    compile_success_count,
    c11_success_count,
    reject_count,
    compile_result,         \* return code of the last compiler run
    test_result,            \* ExecutionResult of the last test run
    result,                 \* verdict analyze_result returned last
    new_violated_property,  \* property analyze_result returned last
    statistics,             \* run(): list of (name, value) pairs
    stdout_file,            \* <output_dir>/stdout.txt: whether it exists, and its content
    stderr_file,            \* <output_dir>/stderr.txt: whether it exists, and its content
    args,                   \* run(): the parsed command line
    compile_cmd,            \* run(): the compile command built last
    popen,                  \* execute(): the child process p, its pipes and the position of the caller
    calls,                  \* history: every command given to execute(), in order
    outcomes,               \* history: every (harness, verdict, property) analyze_result returned
    printed                 \* history: lines printed to the terminal

vars == << pc, exc, specification, created_harnesses, idx, final_result,
           violated_property, successful_harness, iter_count,
           compile_success_count, c11_success_count, reject_count,
           compile_result, test_result, result, new_violated_property,
           statistics, stdout_file, stderr_file, args, compile_cmd, popen,
           calls, outcomes, printed >>

----------------------------------------------------------------------------
(* Bounds of the model *)

MaxHarnesses == 2
MaxStderrLen == 2
\* how many chunks of output a pipe holds before a write to it blocks
PipeCapacity == 2
\* how many chunks a child process writes to one stream at most
MaxOutput == 3

----------------------------------------------------------------------------
(* Module-level constants of the script *)

None == "None"
\* successful_harness = None; harnesses are identified by their number
NoHarness == 0

GCC_ARGS_FIXED == << "-D__alias__(x)=" >>
EXPECTED_ERRMSG_REACH == << "cpa_witness2test: violation" >>
EXPECTED_ERRMSG_OVERFLOW == << "runtime error:" >>
EXPECTED_ERRMSG_MEM_FREE == << "ERROR: AddressSanitizer:", " attempting free" >>
EXPECTED_ERRMSG_MEM_DEREF == << "ERROR: AddressSanitizer:" >>
\* Line 54 holding the message of line 52.
EXPECTED_ERRMSG_MEM_MEMTRACK_AsFree == << "ERROR: AddressSanitizer:", " attempting free" >>
EXPECTED_ERRMSG_MEM_MEMTRACK == << "ERROR: AddressSanitizer:" >>

MACHINE_MODEL_32 == "32bit"
MACHINE_MODEL_64 == "64bit"

RESULT_ACCEPT == "FALSE"
RESULT_REJECT == "TRUE"
RESULT_UNK == "UNKNOWN"

SPEC_REACH == "unreach-call"
SPEC_OVERFLOW == "no-overflow"
SPEC_MEM_FREE == "valid-free"
SPEC_MEM_DEREF == "valid-deref"
SPEC_MEM_MEMTRACK == "valid-memtrack"

\* The keys of SPECIFICATIONS in the order the dictionary iterates them.
SPECIFICATION_KEYS ==
    << SPEC_REACH, SPEC_OVERFLOW, SPEC_MEM_FREE, SPEC_MEM_DEREF, SPEC_MEM_MEMTRACK >>

\* The return codes analyze_result expects of a violating test run.
RETURNCODE_REACH == 107
RETURNCODE_SANITIZER == 1

----------------------------------------------------------------------------
(* Helpers for Python lists and strings *)

Range(s) == { s[i] : i \in 1..Len(s) }

\* Python: x in list
InList(x, s) == \E i \in 1..Len(s) : s[i] = x

\* Python: sub in text (substring test), on chunk sequences
Contains(sub, text) ==
    \E i \in 0..(Len(text) - Len(sub)) : SubSeq(text, i + 1, i + Len(sub)) = sub

\* Python: list.index(x), 1-based here
IndexOf(x, s) == CHOOSE i \in 1..Len(s) : s[i] = x /\ \A j \in 1..(i - 1) : s[j] # x

----------------------------------------------------------------------------
(* get_spec: the specification document and the regular expressions *)

\* The text each regular expression of SPECIFICATIONS recognises, as one chunk.
REGEX_REACH == "G ! call(__VERIFIER_error())"
REGEX_OVERFLOW == "G ! overflow"
REGEX_MEM_FREE == "G valid-free"
REGEX_MEM_DEREF == "G valid-deref"
REGEX_MEM_MEMTRACK == "G valid-memtrack"

SPECIFICATIONS ==
    [ k \in Range(SPECIFICATION_KEYS) |->
        CASE k = SPEC_REACH -> REGEX_REACH
          [] k = SPEC_OVERFLOW -> REGEX_OVERFLOW
          [] k = SPEC_MEM_FREE -> REGEX_MEM_FREE
          [] k = SPEC_MEM_DEREF -> REGEX_MEM_DEREF
          [] k = SPEC_MEM_MEMTRACK -> REGEX_MEM_MEMTRACK ]

\* regex.search(content): the recognised text occurs anywhere in content
RegexSearch(regex, content) == \E p \in 1..Len(content) : content[p] = regex

\* re.match("CHECK\(\s*init\(.*\),\s*LTL\(\s*(.+)\s*\)\r*\n*", content):
\* anchored at the start of content only; ".*" and ".+" match any chunks.
SpecMatches(content) ==
    /\ Len(content) >= 2
    /\ content[1] = "CHECK("
    /\ content[2] = "init("
    /\ \E i \in 3..Len(content) :
          /\ content[i] = "),"
          /\ i + 1 <= Len(content)
          /\ content[i + 1] = "LTL("
          /\ \E k \in (i + 3)..Len(content) : content[k] \in { ")", ")," }

\* Lines 381-386 of get_spec: the list built from the content of the file.
get_spec(content) ==
    IF SpecMatches(content)
    THEN SelectSeq(SPECIFICATION_KEYS,
                   LAMBDA k : RegexSearch(SPECIFICATIONS[k], content))
    ELSE << >>

----------------------------------------------------------------------------
(* analyze_result *)

\* _analyze_result_values accepting on the message alone.
_analyze_result_values_IgnoresReturncode(t, expected_returncode, expected_errmsg, spec_prop) ==
    IF /\ t.stderr # << >>
       /\ Contains(expected_errmsg, t.stderr)
    THEN << RESULT_ACCEPT, spec_prop >>
    ELSE IF t.returncode = 0
         THEN << RESULT_REJECT, None >>
         ELSE << RESULT_UNK, None >>

\* _analyze_result_values taking a test that was killed by a signal (a
\* negative return code) for a test without error.
_analyze_result_values_SignalIsNoError(t, expected_returncode, expected_errmsg, spec_prop) ==
    IF /\ t.returncode = expected_returncode
       /\ t.stderr # << >>
       /\ Contains(expected_errmsg, t.stderr)
    THEN << RESULT_ACCEPT, spec_prop >>
    ELSE IF t.returncode <= 0
         THEN << RESULT_REJECT, None >>
         ELSE << RESULT_UNK, None >>

_analyze_result_values(t, expected_returncode, expected_errmsg, spec_prop) ==
    IF /\ t.returncode = expected_returncode
       /\ t.stderr # << >>
       /\ Contains(expected_errmsg, t.stderr)
    THEN << RESULT_ACCEPT, spec_prop >>
    ELSE IF t.returncode = 0
         THEN << RESULT_REJECT, None >>
         ELSE << RESULT_UNK, None >>

\* Lines 326-341: one entry per property of the specification, in the order
\* of the five if-statements.
results_and_violated_props(t, spec) ==
    (IF InList(SPEC_REACH, spec)
     THEN << _analyze_result_values(t, RETURNCODE_REACH, EXPECTED_ERRMSG_REACH, SPEC_REACH) >>
     ELSE << >>)
    \o (IF InList(SPEC_OVERFLOW, spec)
        THEN << _analyze_result_values(t, RETURNCODE_SANITIZER, EXPECTED_ERRMSG_OVERFLOW, SPEC_OVERFLOW) >>
        ELSE << >>)
    \o (IF InList(SPEC_MEM_FREE, spec)
        THEN << _analyze_result_values(t, RETURNCODE_SANITIZER, EXPECTED_ERRMSG_MEM_FREE, SPEC_MEM_FREE) >>
        ELSE << >>)
    \o (IF InList(SPEC_MEM_DEREF, spec)
        THEN << _analyze_result_values(t, RETURNCODE_SANITIZER, EXPECTED_ERRMSG_MEM_DEREF, SPEC_MEM_DEREF) >>
        ELSE << >>)
    \o (IF InList(SPEC_MEM_MEMTRACK, spec)
        THEN << _analyze_result_values(t, RETURNCODE_SANITIZER, EXPECTED_ERRMSG_MEM_MEMTRACK, SPEC_MEM_MEMTRACK) >>
        ELSE << >>)

\* Python: the last index of x in the list
LastIndexOf(x, s) == CHOOSE i \in 1..Len(s) : s[i] = x /\ \A j \in (i + 1)..Len(s) : s[j] # x

\* analyze_result reporting the last accepted property instead of the first.
analyze_result_LastAccepted(t, spec) ==
    LET rvp == results_and_violated_props(t, spec)
        results == [ i \in 1..Len(rvp) |-> rvp[i][1] ]
    IN  IF InList(RESULT_ACCEPT, results)
        THEN << RESULT_ACCEPT, rvp[LastIndexOf(RESULT_ACCEPT, results)][2] >>
        ELSE IF InList(RESULT_UNK, results)
             THEN << RESULT_UNK, None >>
             ELSE << RESULT_REJECT, None >>

analyze_result(t, spec) ==
    LET rvp == results_and_violated_props(t, spec)
        results == [ i \in 1..Len(rvp) |-> rvp[i][1] ]
    IN  IF InList(RESULT_ACCEPT, results)
        THEN << RESULT_ACCEPT, rvp[IndexOf(RESULT_ACCEPT, results)][2] >>
        ELSE IF InList(RESULT_UNK, results)
             THEN << RESULT_UNK, None >>
             ELSE << RESULT_REJECT, None >>

----------------------------------------------------------------------------
(* create_compile_cmd *)

\* The path of harness number h, and the name of the binary compiled from it.
HarnessFile(h) == ToString(h) \o ".harness.c"

get_target_name(h) == "test_cex" \o ToString(h)

\* args.machine_model is one of the two constants: argparse stores nothing
\* else there, so the raise statement of line 211 is never reached.
_create_gcc_basic_args(a) ==
    GCC_ARGS_FIXED \o a.gcc_args \o
    (IF a.machine_model = MACHINE_MODEL_64 THEN << "-m64" >> ELSE << "-m32" >>)

_create_gcc_cmd_tail(harness, file, target) == << "-o", target, harness, file >>

\* create_compile_cmd appending the no-recover flag once for every family of
\* sanitizers instead of once for the command.
create_compile_cmd_RecoverPerFamily(harness, target, a, spec, c_version, clang) ==
    << IF clang THEN "clang" ELSE "gcc" >>
    \o _create_gcc_basic_args(a)
    \o << "-std=" \o c_version >>
    \o (IF InList(SPEC_OVERFLOW, spec)
        THEN << "-fsanitize=signed-integer-overflow", "-fsanitize=float-cast-overflow",
                "-fno-sanitize-recover" >>
        ELSE << >>)
    \o (IF \E tag \in { SPEC_MEM_FREE, SPEC_MEM_DEREF, SPEC_MEM_MEMTRACK } : InList(tag, spec)
        THEN << "-fsanitize=address", "-fsanitize=leak", "-fno-sanitize-recover" >>
        ELSE << >>)
    \o _create_gcc_cmd_tail(harness, a.file, target)

\* Lines 220-251.  clang is what shutil.which('clang') finds when the
\* command is built.
create_compile_cmd(harness, target, a, spec, c_version, clang) ==
    LET overflow == InList(SPEC_OVERFLOW, spec)
        memory == \E tag \in { SPEC_MEM_FREE, SPEC_MEM_DEREF, SPEC_MEM_MEMTRACK } :
                      InList(tag, spec)
        sanitizer_in_use == overflow \/ memory
    IN  << IF clang THEN "clang" ELSE "gcc" >>
        \o _create_gcc_basic_args(a)
        \o << "-std=" \o c_version >>
        \o (IF overflow
            THEN << "-fsanitize=signed-integer-overflow", "-fsanitize=float-cast-overflow" >>
            ELSE << >>)
        \o (IF memory THEN << "-fsanitize=address", "-fsanitize=leak" >> ELSE << >>)
        \o (IF sanitizer_in_use THEN << "-fno-sanitize-recover" >> ELSE << >>)
        \o _create_gcc_cmd_tail(harness, a.file, target)

----------------------------------------------------------------------------
(* The environment: what the files and the child processes may hold *)

RECURSIVE SeqsUpTo(_, _)
SeqsUpTo(S, n) ==
    IF n = 0 THEN { << >> }
    ELSE LET shorter == SeqsUpTo(S, n - 1)
         IN  shorter \cup { Append(s, x) : s \in shorter, x \in S }

\* glob.glob returns the files it finds in arbitrary order
RECURSIVE Orderings(_)
Orderings(S) ==
    IF S = {} THEN { << >> }
    ELSE UNION { { << x >> \o p : p \in Orderings(S \ {x}) } : x \in S }

\* CHECK( init( <init> ), LTL( <formula> ) )
Document(init, formula) ==
    << "CHECK(", "init(" >> \o init \o << "),", "LTL(" >> \o formula \o << ")", ")" >>

\* The formulas that name the properties of one non-empty set.
Formulas ==
    { SelectSeq(<< REGEX_REACH, REGEX_OVERFLOW, REGEX_MEM_FREE, REGEX_MEM_DEREF, REGEX_MEM_MEMTRACK >>,
                LAMBDA r : r \in rs) :
        rs \in (SUBSET { REGEX_REACH, REGEX_OVERFLOW, REGEX_MEM_FREE,
                         REGEX_MEM_DEREF, REGEX_MEM_MEMTRACK }) \ { {} } }

\* Specification files, as whether the file exists and its stripped content:
\* one well-formed file for every non-empty set of properties.
WellFormedSpecificationFiles ==
    { [ exists |-> TRUE, content |-> Document(<< "main()" >>, f) ] : f \in Formulas }

\* The specification files the modelled runs are given: single properties,
\* the three memory properties together, a property named in the init part,
\* an unknown formula, a bare formula, an empty file and a missing file.
SpecificationFiles ==
    { [ exists |-> TRUE, content |-> Document(<< "main()" >>, << REGEX_REACH >>) ],
      [ exists |-> TRUE, content |-> Document(<< "main()" >>, << REGEX_OVERFLOW >>) ],
      [ exists |-> TRUE, content |-> Document(<< "main()" >>,
                                        << REGEX_MEM_FREE, REGEX_MEM_DEREF, REGEX_MEM_MEMTRACK >>) ],
      [ exists |-> TRUE, content |-> Document(<< REGEX_OVERFLOW >>, << REGEX_REACH >>) ],
      [ exists |-> TRUE, content |-> Document(<< "main()" >>, << "F end" >>) ],
      [ exists |-> TRUE, content |-> << REGEX_REACH >> ],
      [ exists |-> TRUE, content |-> << >> ],
      [ exists |-> FALSE, content |-> << >> ] }

\* Before _parse_args returns the variable args is unbound.
NoArguments ==
    [ machine_model |-> None, gcc_args |-> << >>, file |-> None,
      specification_file |-> [ exists |-> FALSE, content |-> << >> ] ]

\* The command lines the modelled runs of the whole script are given: the
\* default machine model, no extra compiler arguments, and one of the
\* specification files.
Arguments ==
    { [ machine_model |-> MACHINE_MODEL_32, gcc_args |-> << >>, file |-> "program.c",
        specification_file |-> f ] : f \in SpecificationFiles }

\* Return codes of a compiler run: success or failure.
CompilerReturnCodes == { 0, 1 }

\* What shutil.which('clang') finds on a machine that has clang installed.
ClangInstalled == { TRUE }

\* What shutil.which('clang') may find at different times of a run on a
\* machine where clang is being installed, removed or taken off the path.
ClangComesAndGoes == BOOLEAN

\* Return codes of a test run: clean exit, the sanitizers' exit code, an
\* unrelated failure, the harness's own exit code, death by a signal (SIGSEGV).
TestReturnCodes == { 0, 1, 2, 107, -11 }

StderrChunks ==
    { "cpa_witness2test: violation", "runtime error:",
      "ERROR: AddressSanitizer:", " attempting free" }

StderrTexts == SeqsUpTo(StderrChunks, MaxStderrLen)

StdoutTexts == { << >>, << "test output" >> }

ExecutionResults ==
    [ returncode : TestReturnCodes, stdout : StdoutTexts, stderr : StderrTexts ]

\* The test runs the modelled runs of the whole script see: every return code
\* but the second unrelated one, and on stderr nothing or one diagnostic.
SampledExecutionResults ==
    { r \in ExecutionResults :
        /\ r.returncode # 2
        /\ r.stderr \in { << >>, EXPECTED_ERRMSG_REACH, EXPECTED_ERRMSG_OVERFLOW,
                          EXPECTED_ERRMSG_MEM_DEREF, EXPECTED_ERRMSG_MEM_FREE } }

\* Before the first test run the variable test_result is unbound.
NoExecutionResult == [ returncode |-> 0, stdout |-> << >>, stderr |-> << >> ]

NoSuchFile == [ exists |-> FALSE, content |-> << >> ]

\* No child process: execute() is not being run step by step.
NoProcess ==
    [ at |-> "idle", exited |-> FALSE, to_stdout |-> 0, to_stderr |-> 0,
      stdout_pipe |-> 0, stderr_pipe |-> 0, output |-> 0, err_output |-> 0 ]

\* open(path, 'w+') followed by write(text): the file holds text and nothing else
WriteFile(old, text) == [ exists |-> TRUE, content |-> text ]

----------------------------------------------------------------------------
(* The script: run() and the try statement around it *)

Init ==
    /\ pc = "parse_args"
    /\ exc = None
    /\ specification = << >>
    /\ created_harnesses = << >>
    /\ idx = 0
    /\ final_result = None
    /\ violated_property = None
    /\ successful_harness = NoHarness
    /\ iter_count = 0
    /\ compile_success_count = 0
    /\ c11_success_count = 0
    /\ reject_count = 0
    /\ compile_result = 0
    /\ test_result = NoExecutionResult
    /\ result = None
    /\ new_violated_property = None
    /\ statistics = << >>
    /\ stdout_file = NoSuchFile
    /\ stderr_file = NoSuchFile
    /\ args = NoArguments
    /\ compile_cmd = << >>
    /\ popen = NoProcess
    /\ calls = << >>
    /\ outcomes = << >>
    /\ printed = << >>

\* The variables of the loop over the harnesses.
loop_vars == << idx, final_result, violated_property, successful_harness,
                iter_count, compile_success_count, c11_success_count,
                reject_count, compile_result, test_result, result,
                new_violated_property, stdout_file, stderr_file, outcomes >>

\* raise <kind>: the control flow leaves run()
Raise(kind) ==
    /\ pc' = "raised"
    /\ exc' = kind

\* One entry of the history of execute(): the command, the harness it is
\* for, the C standard of a compile command, and whether it returned 0.
Call(cmd, harness, c_version, returncode) ==
    [ cmd |-> cmd, harness |-> harness, c_version |-> c_version,
      succeeded |-> (returncode = 0) ]

\* Line 394: _parse_args builds the parser, and building it runs
\* get_cpachecker_version: it looks for cpa.sh and runs "cpa.sh -help".
ParseArgs ==
    /\ pc = "parse_args"
    /\ \E found \in BOOLEAN :
          IF found
          THEN /\ calls' = Append(calls, Call("cpa.sh -help", NoHarness, None, 0))
               /\ \E a \in Arguments : args' = a
               /\ pc' = "get_spec"
               /\ exc' = exc
          ELSE /\ Raise("ValidationError")
               /\ UNCHANGED << calls, args >>
    /\ UNCHANGED << specification, created_harnesses, statistics, compile_cmd,
                    popen, printed >>
    /\ UNCHANGED loop_vars

\* Line 397, get_spec: a missing file makes open() raise, an empty list makes
\* the assert statement raise.
GetSpec ==
    /\ pc = "get_spec"
    /\ LET file == args.specification_file
       IN IF ~file.exists
          THEN /\ Raise("FileNotFoundError")
               /\ specification' = specification
          ELSE IF get_spec(file.content) = << >>
               THEN /\ Raise("AssertionError")
                    /\ specification' = specification
               ELSE /\ specification' = get_spec(file.content)
                    /\ pc' = "generate"
                    /\ exc' = exc
    /\ UNCHANGED << created_harnesses, statistics, args, compile_cmd, popen,
                    calls, printed >>
    /\ UNCHANGED loop_vars

\* Lines 399-413: look for cpa.sh again, run the harness generator, collect
\* the harness files and initialise the variables of the loop.
GenerateHarnesses ==
    /\ pc = "generate"
    /\ \E found \in BOOLEAN :
          IF found
          THEN /\ \E n \in 0..MaxHarnesses :
                    \E hs \in Orderings(1..n) :
                        /\ created_harnesses' = hs
                        /\ statistics' = Append(statistics, << "Harnesses produced", Len(hs) >>)
               /\ calls' = Append(calls, Call("cpa.sh -witness2test", NoHarness, None, 0))
               /\ pc' = "loop"
               /\ exc' = exc
          ELSE /\ Raise("ValidationError")
               /\ UNCHANGED << created_harnesses, statistics, calls >>
    /\ final_result' = None
    /\ violated_property' = None
    /\ successful_harness' = NoHarness
    /\ iter_count' = 0
    /\ compile_success_count' = 0
    /\ c11_success_count' = 0
    /\ reject_count' = 0
    /\ UNCHANGED << specification, idx, compile_result, test_result, result,
                    new_violated_property, stdout_file, stderr_file, args,
                    compile_cmd, popen, outcomes, printed >>

\* Lines 424 and 430 with the comparison inverted.
CompilationFailed_Inverted(returncode) == returncode = 0

\* Lines 424 and 430 never taking a compiler run for failed.
CompilationFailed_Never(returncode) == FALSE

\* Lines 424 and 430: compile_result.returncode != 0
CompilationFailed(returncode) == returncode # 0

\* Lines 414-424 and 434-436: the next harness is taken from the list and
\* compiled with the default standard, gnu11.
CompilePrimaryOn(which, returncodes) ==
    /\ pc = "loop"
    /\ idx < Len(created_harnesses)
    /\ idx' = idx + 1
    /\ iter_count' = iter_count + 1
    /\ \E clang \in which :
          compile_cmd' = create_compile_cmd(HarnessFile(created_harnesses[idx + 1]),
                                            get_target_name(created_harnesses[idx + 1]),
                                            args, specification, "gnu11", clang)
    /\ \E returncode \in returncodes :
          /\ calls' = Append(calls, Call("compile", created_harnesses[idx + 1], "gnu11", returncode))
          /\ compile_result' = returncode
          /\ IF CompilationFailed(returncode)
             THEN /\ pc' = "compile_fallback"
                  /\ UNCHANGED << c11_success_count, compile_success_count >>
             ELSE /\ c11_success_count' = c11_success_count + 1
                  /\ compile_success_count' = compile_success_count + 1
                  /\ pc' = "execute"
    /\ UNCHANGED << exc, specification, created_harnesses, final_result,
                    violated_property, successful_harness, reject_count,
                    test_result, result, new_violated_property, statistics,
                    stdout_file, stderr_file, args, popen, outcomes, printed >>

CompilePrimary == CompilePrimaryOn(ClangInstalled, CompilerReturnCodes)

\* Lines 425-432 and 436: the second attempt, with gnu90.
CompileFallbackOn(which, returncodes) ==
    /\ pc = "compile_fallback"
    /\ \E clang \in which :
          compile_cmd' = create_compile_cmd(HarnessFile(created_harnesses[idx]),
                                            get_target_name(created_harnesses[idx]),
                                            args, specification, "gnu90", clang)
    /\ \E returncode \in returncodes :
          /\ calls' = Append(calls, Call("compile", created_harnesses[idx], "gnu90", returncode))
          /\ compile_result' = returncode
          /\ IF CompilationFailed(returncode)
             THEN /\ pc' = "loop"       \* continue
                  /\ UNCHANGED compile_success_count
             ELSE /\ compile_success_count' = compile_success_count + 1
                  /\ pc' = "execute"
    /\ UNCHANGED << exc, specification, created_harnesses, idx, final_result,
                    violated_property, successful_harness, iter_count,
                    c11_success_count, reject_count, test_result, result,
                    new_violated_property, statistics, stdout_file,
                    stderr_file, args, popen, outcomes, printed >>

CompileFallback == CompileFallbackOn(ClangInstalled, CompilerReturnCodes)

\* Lines 441-448: each stream is written to its file if it is not empty.
WriteCapture(file, text) == IF text # << >> THEN WriteFile(file, text) ELSE file

\* Lines 438-448: the compiled test is run and its streams are stored; the
\* test ends with one of the given results.
ExecuteTestOn(results) ==
    /\ pc = "execute"
    /\ \E r \in results :
          /\ calls' = Append(calls, Call("test", created_harnesses[idx], None, r.returncode))
          /\ test_result' = r
          /\ stdout_file' = WriteCapture(stdout_file, r.stdout)
          /\ stderr_file' = WriteCapture(stderr_file, r.stderr)
    /\ pc' = "analyze"
    /\ UNCHANGED << exc, specification, created_harnesses, idx, final_result,
                    violated_property, successful_harness, iter_count,
                    compile_success_count, c11_success_count, reject_count,
                    compile_result, result, new_violated_property, statistics,
                    args, compile_cmd, popen, outcomes, printed >>

ExecuteTest == ExecuteTestOn(SampledExecutionResults)

\* Accumulate without the break statement of line 456.
Accumulate_NoBreak(r, prop, h) ==
    IF r = RESULT_ACCEPT
    THEN [ final_result |-> RESULT_ACCEPT,
           violated_property |-> IF violated_property = None THEN prop ELSE violated_property,
           successful_harness |-> h,
           reject_count |-> reject_count,
           break |-> FALSE ]
    ELSE IF r = RESULT_REJECT
    THEN [ final_result |-> IF final_result = None THEN RESULT_REJECT ELSE final_result,
           violated_property |-> violated_property,
           successful_harness |-> successful_harness,
           reject_count |-> reject_count + 1,
           break |-> FALSE ]
    ELSE [ final_result |-> RESULT_UNK,
           violated_property |-> violated_property,
           successful_harness |-> successful_harness,
           reject_count |-> reject_count,
           break |-> FALSE ]

\* Accumulate without the test of line 459: a rejecting harness always sets
\* the final result.
Accumulate_RejectOverwrites(r, prop, h) ==
    IF r = RESULT_ACCEPT
    THEN [ final_result |-> RESULT_ACCEPT,
           violated_property |-> IF violated_property = None THEN prop ELSE violated_property,
           successful_harness |-> h,
           reject_count |-> reject_count,
           break |-> TRUE ]
    ELSE IF r = RESULT_REJECT
    THEN [ final_result |-> RESULT_REJECT,
           violated_property |-> violated_property,
           successful_harness |-> successful_harness,
           reject_count |-> reject_count + 1,
           break |-> FALSE ]
    ELSE [ final_result |-> RESULT_UNK,
           violated_property |-> violated_property,
           successful_harness |-> successful_harness,
           reject_count |-> reject_count,
           break |-> FALSE ]

\* Accumulate with the test of line 459 applied to line 462 as well: an
\* unknown result sets the final result only if there is none yet.
Accumulate_UnknownKeepsReject(r, prop, h) ==
    IF r = RESULT_ACCEPT
    THEN [ final_result |-> RESULT_ACCEPT,
           violated_property |-> IF violated_property = None THEN prop ELSE violated_property,
           successful_harness |-> h,
           reject_count |-> reject_count,
           break |-> TRUE ]
    ELSE IF r = RESULT_REJECT
    THEN [ final_result |-> IF final_result = None THEN RESULT_REJECT ELSE final_result,
           violated_property |-> violated_property,
           successful_harness |-> successful_harness,
           reject_count |-> reject_count + 1,
           break |-> FALSE ]
    ELSE [ final_result |-> IF final_result = None THEN RESULT_UNK ELSE final_result,
           violated_property |-> violated_property,
           successful_harness |-> successful_harness,
           reject_count |-> reject_count,
           break |-> FALSE ]

\* Accumulate counting an unknown result among the rejected ones.
Accumulate_CountsUnknownAsRejected(r, prop, h) ==
    IF r = RESULT_ACCEPT
    THEN [ final_result |-> RESULT_ACCEPT,
           violated_property |-> IF violated_property = None THEN prop ELSE violated_property,
           successful_harness |-> h,
           reject_count |-> reject_count,
           break |-> TRUE ]
    ELSE IF r = RESULT_REJECT
    THEN [ final_result |-> IF final_result = None THEN RESULT_REJECT ELSE final_result,
           violated_property |-> violated_property,
           successful_harness |-> successful_harness,
           reject_count |-> reject_count + 1,
           break |-> FALSE ]
    ELSE [ final_result |-> RESULT_UNK,
           violated_property |-> violated_property,
           successful_harness |-> successful_harness,
           reject_count |-> reject_count + 1,
           break |-> FALSE ]

\* Lines 451-462: what the loop does with the verdict r of harness h, as the
\* new values of (final_result, violated_property, successful_harness,
\* reject_count, leave the loop).
Accumulate(r, prop, h) ==
    IF r = RESULT_ACCEPT
    THEN [ final_result |-> RESULT_ACCEPT,
           violated_property |-> IF violated_property = None THEN prop ELSE violated_property,
           successful_harness |-> h,
           reject_count |-> reject_count,
           break |-> TRUE ]
    ELSE IF r = RESULT_REJECT
    THEN [ final_result |-> IF final_result = None THEN RESULT_REJECT ELSE final_result,
           violated_property |-> violated_property,
           successful_harness |-> successful_harness,
           reject_count |-> reject_count + 1,
           break |-> FALSE ]
    ELSE [ final_result |-> RESULT_UNK,
           violated_property |-> violated_property,
           successful_harness |-> successful_harness,
           reject_count |-> reject_count,
           break |-> FALSE ]

\* Lines 450-462: the test result is classified and folded into the result
\* of the run.
AnalyzeTest ==
    /\ pc = "analyze"
    /\ LET a == analyze_result(test_result, specification)
           n == Accumulate(a[1], a[2], created_harnesses[idx])
       IN  /\ result' = a[1]
           /\ new_violated_property' = a[2]
           /\ outcomes' = Append(outcomes, << created_harnesses[idx], a[1], a[2] >>)
           /\ final_result' = n.final_result
           /\ violated_property' = n.violated_property
           /\ successful_harness' = n.successful_harness
           /\ reject_count' = n.reject_count
           /\ pc' = IF n.break THEN "after_loop" ELSE "loop"
    /\ UNCHANGED << exc, specification, created_harnesses, idx, iter_count,
                    compile_success_count, c11_success_count, compile_result,
                    test_result, statistics, stdout_file, stderr_file, args,
                    compile_cmd, popen, calls, printed >>

\* Line 414: the list is exhausted.
LoopExit ==
    /\ pc = "loop"
    /\ idx = Len(created_harnesses)
    /\ pc' = "after_loop"
    /\ UNCHANGED << exc, specification, created_harnesses, statistics, args,
                    compile_cmd, popen, calls, printed >>
    /\ UNCHANGED loop_vars

\* Lines 477-478 naming the harness of the last test whatever its result.
ReportLines_HarnessOfLastTest ==
    << [ line |-> "Harness was successful", value |-> None,
         harness |-> created_harnesses[idx], property |-> None ],
       [ line |-> "Verification result", value |-> final_result,
         harness |-> NoHarness, property |-> violated_property ] >>

\* Lines 477-483: the lines run() prints last.
ReportLines ==
    (IF successful_harness # NoHarness
     THEN << [ line |-> "Harness was successful", value |-> None,
               harness |-> successful_harness, property |-> None ] >>
     ELSE << >>)
    \o << [ line |-> "Verification result", value |-> final_result,
            harness |-> NoHarness, property |-> violated_property ] >>

\* Line 464 testing the number of iterations instead.
NothingCompiled_IterCount == iter_count = 0

\* Line 464: compile_success_count == 0
NothingCompiled == compile_success_count = 0

\* Lines 464-483: nothing compiled is an error; otherwise the statistics are
\* completed (the block that -stats prints shows this list) and the result
\* is printed.
Report ==
    /\ pc = "after_loop"
    /\ IF NothingCompiled
       THEN /\ Raise("ValidationError")
            /\ UNCHANGED << statistics, printed >>
       ELSE /\ statistics' = statistics \o
                    << << "Harnesses tested", iter_count >>,
                       << "C11 compatible", c11_success_count >>,
                       << "Harnesses rejected", reject_count >> >>
            /\ printed' = printed \o ReportLines
            /\ pc' = "done"
            /\ exc' = exc
    /\ UNCHANGED << specification, created_harnesses, args, compile_cmd, popen, calls >>
    /\ UNCHANGED loop_vars

\* Lines 491-493: except ValidationError
HandleValidationError ==
    /\ pc = "raised"
    /\ exc = "ValidationError"
    /\ printed' = Append(printed, [ line |-> "Verification result", value |-> "ERROR",
                                    harness |-> NoHarness, property |-> None ])
    /\ exc' = None
    /\ pc' = "done"
    /\ UNCHANGED << specification, created_harnesses, statistics, args,
                    compile_cmd, popen, calls >>
    /\ UNCHANGED loop_vars

\* Lines 489-493: any other exception is not handled; the interpreter prints
\* a traceback and the script ends without a result line.
Traceback ==
    /\ pc = "raised"
    /\ exc # "ValidationError"
    /\ pc' = "crashed"
    /\ UNCHANGED << exc, specification, created_harnesses, statistics, args,
                    compile_cmd, popen, calls, printed >>
    /\ UNCHANGED loop_vars

Next ==
    \/ ParseArgs
    \/ GetSpec
    \/ GenerateHarnesses
    \/ CompilePrimary
    \/ CompileFallback
    \/ ExecuteTest
    \/ AnalyzeTest
    \/ LoopExit
    \/ Report
    \/ HandleValidationError
    \/ Traceback

Spec == Init /\ [][Next]_vars

----------------------------------------------------------------------------
(* The classification of one test run, on every property set and every     *)
(* test result: the runs of the script that were given a well-formed        *)
(* specification file and found one harness, from the point where that      *)
(* harness has been compiled.                                               *)

InitClassify ==
    /\ pc = "execute"
    /\ exc = None
    /\ \E file \in WellFormedSpecificationFiles :
          /\ args = [ machine_model |-> MACHINE_MODEL_32, gcc_args |-> << >>,
                      file |-> "program.c", specification_file |-> file ]
          /\ specification = get_spec(file.content)
    /\ created_harnesses = << 1 >>
    /\ idx = 1
    /\ final_result = None
    /\ violated_property = None
    /\ successful_harness = NoHarness
    /\ iter_count = 1
    /\ compile_success_count = 1
    /\ c11_success_count = 1
    /\ reject_count = 0
    /\ compile_result = 0
    /\ test_result = NoExecutionResult
    /\ result = None
    /\ new_violated_property = None
    /\ statistics = << << "Harnesses produced", 1 >> >>
    /\ stdout_file = NoSuchFile
    /\ stderr_file = NoSuchFile
    /\ compile_cmd = create_compile_cmd(HarnessFile(1), get_target_name(1), args,
                                        specification, "gnu11", TRUE)
    /\ popen = NoProcess
    /\ calls = << Call("cpa.sh -help", NoHarness, None, 0),
                  Call("cpa.sh -witness2test", NoHarness, None, 0),
                  Call("compile", 1, "gnu11", 0) >>
    /\ outcomes = << >>
    /\ printed = << >>

ExecuteAnyTest == ExecuteTestOn(ExecutionResults)

NextClassify ==
    \/ ExecuteAnyTest
    \/ AnalyzeTest
    \/ LoopExit
    \/ Report

SpecClassify == InitClassify /\ [][NextClassify]_vars

----------------------------------------------------------------------------
(* The compile commands of a run, on every property set, both machine      *)
(* models and a search path on which clang comes and goes: the runs of the *)
(* script from the point where the harnesses have been collected, with     *)
(* tests that end quietly.                                                  *)

\* The command lines of these runs.
CompileArguments ==
    { [ machine_model |-> m, gcc_args |-> g, file |-> "program.c",
        specification_file |-> f ] :
        m \in { MACHINE_MODEL_32, MACHINE_MODEL_64 },
        g \in { << >>, << "-g" >> },
        f \in WellFormedSpecificationFiles }

\* A test that returns 0 and writes nothing.
QuietExecutionResults ==
    { r \in ExecutionResults : r.returncode = 0 /\ r.stdout = << >> /\ r.stderr = << >> }

InitCompile ==
    /\ pc = "loop"
    /\ exc = None
    /\ args \in CompileArguments
    /\ specification = get_spec(args.specification_file.content)
    /\ \E n \in 1..MaxHarnesses : created_harnesses = [ k \in 1..n |-> k ]
    /\ idx = 0
    /\ final_result = None
    /\ violated_property = None
    /\ successful_harness = NoHarness
    /\ iter_count = 0
    /\ compile_success_count = 0
    /\ c11_success_count = 0
    /\ reject_count = 0
    /\ compile_result = 0
    /\ test_result = NoExecutionResult
    /\ result = None
    /\ new_violated_property = None
    /\ statistics = << << "Harnesses produced", Len(created_harnesses) >> >>
    /\ stdout_file = NoSuchFile
    /\ stderr_file = NoSuchFile
    /\ compile_cmd = << >>
    /\ popen = NoProcess
    /\ calls = << Call("cpa.sh -help", NoHarness, None, 0),
                  Call("cpa.sh -witness2test", NoHarness, None, 0) >>
    /\ outcomes = << >>
    /\ printed = << >>

CompilePrimaryAnyCompiler == CompilePrimaryOn(ClangComesAndGoes, CompilerReturnCodes)

CompileFallbackAnyCompiler == CompileFallbackOn(ClangComesAndGoes, CompilerReturnCodes)

ExecuteQuietTest == ExecuteTestOn(QuietExecutionResults)

NextCompile ==
    \/ CompilePrimaryAnyCompiler
    \/ CompileFallbackAnyCompiler
    \/ ExecuteQuietTest
    \/ AnalyzeTest
    \/ LoopExit
    \/ Report
    \/ HandleValidationError

SpecCompile == InitCompile /\ [][NextCompile]_vars

----------------------------------------------------------------------------
(* execute(), step by step: the child process writes to its two pipes and  *)
(* exits, the caller waits for it and then reads the pipes.  The other      *)
(* variables are those of a run that is about to test its first harness.   *)

\* Line 304, subprocess.Popen: the child is started; it is going to write
\* out chunks to stdout and err chunks to stderr, and nothing is written yet.
Popen(out, err) ==
    [ at |-> "wait", exited |-> FALSE, to_stdout |-> out, to_stderr |-> err,
      stdout_pipe |-> 0, stderr_pipe |-> 0, output |-> 0, err_output |-> 0 ]

InitExecute ==
    /\ pc = "execute"
    /\ exc = None
    /\ args \in { a \in Arguments : get_spec(a.specification_file.content) = << SPEC_REACH >> }
    /\ specification = << SPEC_REACH >>
    /\ created_harnesses = << 1 >>
    /\ idx = 1
    /\ final_result = None
    /\ violated_property = None
    /\ successful_harness = NoHarness
    /\ iter_count = 1
    /\ compile_success_count = 1
    /\ c11_success_count = 1
    /\ reject_count = 0
    /\ compile_result = 0
    /\ test_result = NoExecutionResult
    /\ result = None
    /\ new_violated_property = None
    /\ statistics = << << "Harnesses produced", 1 >> >>
    /\ stdout_file = NoSuchFile
    /\ stderr_file = NoSuchFile
    /\ compile_cmd = create_compile_cmd(HarnessFile(1), get_target_name(1), args,
                                        specification, "gnu11", TRUE)
    /\ \E out \in 0..MaxOutput, err \in 0..MaxOutput : popen = Popen(out, err)
    /\ calls = << Call("cpa.sh -help", NoHarness, None, 0),
                  Call("cpa.sh -witness2test", NoHarness, None, 0),
                  Call("compile", 1, "gnu11", 0) >>
    /\ outcomes = << >>
    /\ printed = << >>

run_vars == << pc, exc, specification, created_harnesses, idx, final_result,
               violated_property, successful_harness, iter_count,
               compile_success_count, c11_success_count, reject_count,
               compile_result, test_result, result, new_violated_property,
               statistics, stdout_file, stderr_file, args, compile_cmd,
               calls, outcomes, printed >>

\* The child writes one chunk to stdout; the write blocks while the pipe is full.
ChildWriteStdout ==
    /\ ~popen.exited
    /\ popen.to_stdout > 0
    /\ popen.stdout_pipe < PipeCapacity
    /\ popen' = [ popen EXCEPT !.to_stdout = @ - 1, !.stdout_pipe = @ + 1 ]
    /\ UNCHANGED run_vars

\* The child writes one chunk to stderr; the write blocks while the pipe is full.
ChildWriteStderr ==
    /\ ~popen.exited
    /\ popen.to_stderr > 0
    /\ popen.stderr_pipe < PipeCapacity
    /\ popen' = [ popen EXCEPT !.to_stderr = @ - 1, !.stderr_pipe = @ + 1 ]
    /\ UNCHANGED run_vars

\* The child has written all its output and exits; that closes its ends of
\* the pipes.
ChildExit ==
    /\ popen.at # "idle"
    /\ ~popen.exited
    /\ popen.to_stdout = 0
    /\ popen.to_stderr = 0
    /\ popen' = [ popen EXCEPT !.exited = TRUE ]
    /\ UNCHANGED run_vars

\* Line 310: p.wait() returns when the child has exited.
Wait ==
    /\ popen.at = "wait"
    /\ popen.exited
    /\ popen' = [ popen EXCEPT !.at = "read_stdout" ]
    /\ UNCHANGED run_vars

\* Line 311: p.stdout.read() takes what is in the pipe, until the end of file.
ReadStdout ==
    /\ popen.at = "read_stdout"
    /\ IF popen.stdout_pipe > 0
       THEN popen' = [ popen EXCEPT !.stdout_pipe = @ - 1, !.output = @ + 1 ]
       ELSE /\ popen.exited
            /\ popen' = [ popen EXCEPT !.at = "read_stderr" ]
    /\ UNCHANGED run_vars

\* Lines 312-313: p.stderr.read(), then execute() returns.
ReadStderr ==
    /\ popen.at = "read_stderr"
    /\ IF popen.stderr_pipe > 0
       THEN popen' = [ popen EXCEPT !.stderr_pipe = @ - 1, !.err_output = @ + 1 ]
       ELSE /\ popen.exited
            /\ popen' = [ popen EXCEPT !.at = "returned" ]
    /\ UNCHANGED run_vars

NextExecute ==
    \/ ChildWriteStdout
    \/ ChildWriteStderr
    \/ ChildExit
    \/ Wait
    \/ ReadStdout
    \/ ReadStderr

\* The operating system keeps scheduling the child and the caller: a step
\* that stays possible is taken.
SpecExecute == InitExecute /\ [][NextExecute]_vars /\ WF_vars(NextExecute)

----------------------------------------------------------------------------
(* The loop of run() on harnesses that behave the same whenever they are   *)
(* processed: harness number h compiles and runs as HarnessBehaviours[h]   *)
(* says, and glob returns any set of them in any order.                     *)

\* What the compiler returns for the harness with gnu11 and with gnu90, and
\* how its test ends.
HarnessBehaviours ==
    << [ primary |-> 1, fallback |-> 1,
         test |-> [ returncode |-> 0, stdout |-> << >>, stderr |-> << >> ] ],
       [ primary |-> 0, fallback |-> 0,
         test |-> [ returncode |-> 0, stdout |-> << "test output" >>, stderr |-> << >> ] ],
       [ primary |-> 0, fallback |-> 0,
         test |-> [ returncode |-> 107, stdout |-> << >>, stderr |-> EXPECTED_ERRMSG_REACH ] ],
       [ primary |-> 1, fallback |-> 0,
         test |-> [ returncode |-> 1, stdout |-> << >>, stderr |-> EXPECTED_ERRMSG_OVERFLOW ] ],
       [ primary |-> 0, fallback |-> 0,
         test |-> [ returncode |-> -11, stdout |-> << >>, stderr |-> << >> ] ],
       [ primary |-> 1, fallback |-> 0,
         test |-> [ returncode |-> 1, stdout |-> << >>, stderr |-> EXPECTED_ERRMSG_MEM_DEREF ] ],
       [ primary |-> 1, fallback |-> 0,
         test |-> [ returncode |-> 0, stdout |-> << >>, stderr |-> << >> ] ] >>

\* The sets of harnesses the generator may leave in the output directory.
HarnessSets ==
    { hs \in SUBSET (1..Len(HarnessBehaviours)) : Cardinality(hs) \in 1..MaxHarnesses }

InitOrder ==
    /\ pc = "loop"
    /\ exc = None
    /\ args \in { a \in Arguments : a.specification_file.exists
                                      /\ get_spec(a.specification_file.content) # << >> }
    /\ specification = get_spec(args.specification_file.content)
    /\ \E hs \in HarnessSets : created_harnesses \in Orderings(hs)
    /\ idx = 0
    /\ final_result = None
    /\ violated_property = None
    /\ successful_harness = NoHarness
    /\ iter_count = 0
    /\ compile_success_count = 0
    /\ c11_success_count = 0
    /\ reject_count = 0
    /\ compile_result = 0
    /\ test_result = NoExecutionResult
    /\ result = None
    /\ new_violated_property = None
    /\ statistics = << << "Harnesses produced", Len(created_harnesses) >> >>
    /\ stdout_file = NoSuchFile
    /\ stderr_file = NoSuchFile
    /\ compile_cmd = << >>
    /\ popen = NoProcess
    /\ calls = << Call("cpa.sh -help", NoHarness, None, 0),
                  Call("cpa.sh -witness2test", NoHarness, None, 0) >>
    /\ outcomes = << >>
    /\ printed = << >>

CompilePrimaryAsGiven ==
    CompilePrimaryOn(ClangInstalled, { HarnessBehaviours[created_harnesses[idx + 1]].primary })

CompileFallbackAsGiven ==
    CompileFallbackOn(ClangInstalled, { HarnessBehaviours[created_harnesses[idx]].fallback })

ExecuteTestAsGiven ==
    ExecuteTestOn({ HarnessBehaviours[created_harnesses[idx]].test })

NextOrder ==
    \/ CompilePrimaryAsGiven
    \/ CompileFallbackAsGiven
    \/ ExecuteTestAsGiven
    \/ AnalyzeTest
    \/ LoopExit
    \/ Report
    \/ HandleValidationError

SpecOrder == InitOrder /\ [][NextOrder]_vars

----------------------------------------------------------------------------
(* Properties of run() *)

\* The place of harness h in created_harnesses.
PositionOf(h) == CHOOSE k \in 1..Len(created_harnesses) : created_harnesses[k] = h

\* The calls of execute() that were made for harness h.
CallsFor(h) == SelectSeq(calls, LAMBDA c : c.harness = h)

\* The compiler runs that were made for harness h.
CompileCallsFor(h) == SelectSeq(calls, LAMBDA c : c.cmd = "compile" /\ c.harness = h)

GeneratorRan == \E j \in 1..Len(calls) : calls[j].cmd = "cpa.sh -witness2test"

SomeCompileSucceeded ==
    \E j \in 1..Len(calls) : calls[j].cmd = "compile" /\ calls[j].succeeded

ResultLine(value, property) ==
    [ line |-> "Verification result", value |-> value,
      harness |-> NoHarness, property |-> property ]

SuccessLine(h) ==
    [ line |-> "Harness was successful", value |-> None,
      harness |-> h, property |-> None ]

\* C1: the first harness that analyze_result accepts ends the loop; its
\* property and its name are the answer of the run, that answer is what is
\* printed, and execute() is never called for a harness that comes after it
\* in created_harnesses.
C1_ShortCircuit ==
    \A i \in 1..Len(outcomes) :
        outcomes[i][2] = RESULT_ACCEPT =>
            /\ i = Len(outcomes)
            /\ pc \in { "after_loop", "done" }
            /\ final_result = RESULT_ACCEPT
            /\ violated_property = outcomes[i][3]
            /\ successful_harness = outcomes[i][1]
            /\ \A k \in 1..Len(created_harnesses) :
                  k > PositionOf(outcomes[i][1]) => CallsFor(created_harnesses[k]) = << >>
            /\ pc = "done" =>
                  printed = << SuccessLine(outcomes[i][1]),
                               ResultLine(RESULT_ACCEPT, outcomes[i][3]) >>

\* C1, its case: a run has ended with an accepted harness that was not the
\* last one of the list, after an earlier harness was rejected or skipped.
C1_Witness ==
    /\ pc = "done"
    /\ final_result = RESULT_ACCEPT
    /\ violated_property = SPEC_OVERFLOW
    /\ idx < Len(created_harnesses)
    /\ CallsFor(created_harnesses[Len(created_harnesses)]) = << >>

\* C2: when the loop has gone through every harness, none was accepted and
\* at least one was compiled, the final result is UNKNOWN if analyze_result
\* returned UNKNOWN for any harness, and TRUE (rejected) otherwise; that is
\* the result printed.
C2_ExhaustedVerdict ==
    ( /\ pc \in { "after_loop", "done" }
      /\ idx = Len(created_harnesses)
      /\ SomeCompileSucceeded
      /\ \A i \in 1..Len(outcomes) : outcomes[i][2] # RESULT_ACCEPT )
    =>
    LET verdict == IF \E i \in 1..Len(outcomes) : outcomes[i][2] = RESULT_UNK
                   THEN RESULT_UNK
                   ELSE RESULT_REJECT
    IN  /\ final_result = verdict
        /\ pc = "done" => printed = << ResultLine(verdict, None) >>

\* C2, its case: an UNKNOWN harness followed by a rejected one.
C2_Witness ==
    /\ pc = "done"
    /\ Len(outcomes) = 2
    /\ outcomes[1][2] = RESULT_UNK
    /\ outcomes[2][2] = RESULT_REJECT
    /\ final_result = RESULT_UNK

\* C3: when the harness generator was run and no compiler run ever
\* succeeded (every harness failed twice, or there was no harness), run()
\* raises ValidationError, the only line printed is the ERROR result, and no
\* verdict is ever set or printed.
C3_NothingCompiledIsError ==
    ( /\ GeneratorRan
      /\ ~SomeCompileSucceeded
      /\ pc \in { "raised", "done", "crashed" } )
    =>
    /\ pc # "crashed"
    /\ pc = "raised" => exc = "ValidationError"
    /\ pc = "done" => printed = << ResultLine("ERROR", None) >>
    /\ final_result = None

\* C3, its case: two harnesses, both compiled twice in vain, and the run over.
C3_Witness ==
    /\ pc = "done"
    /\ Len(created_harnesses) >= 2
    /\ \A k \in 1..Len(created_harnesses) : Len(CompileCallsFor(created_harnesses[k])) = 2
    /\ ~SomeCompileSucceeded
    /\ printed = << ResultLine("ERROR", None) >>

\* C4: a missing cpa.sh, a specification that does not have the form
\* CHECK(init(...), LTL(...)) and a specification that names no known
\* property all end the run as a ValidationError (so that the ERROR result
\* is printed), before any harness is compiled or run, and run() never goes
\* on with an empty specification.
C4_FatalConditionsAreValidationErrors ==
    /\ ( /\ pc \in { "raised", "crashed" }
         /\ ~GeneratorRan
         /\ exc # "FileNotFoundError" )
       => /\ exc = "ValidationError"
          /\ \A j \in 1..Len(calls) : calls[j].harness = NoHarness
    /\ pc \in { "generate", "loop", "compile_fallback", "execute", "analyze", "after_loop" }
       => specification # << >>

----------------------------------------------------------------------------
(* Properties of analyze_result *)

\* Lines 332-341: the return code and the message a violation of each property
\* is known by.
ExpectedReturncode(tag) ==
    IF tag = SPEC_REACH THEN RETURNCODE_REACH ELSE RETURNCODE_SANITIZER

ExpectedErrmsg(tag) ==
    CASE tag = SPEC_REACH -> EXPECTED_ERRMSG_REACH
      [] tag = SPEC_OVERFLOW -> EXPECTED_ERRMSG_OVERFLOW
      [] tag = SPEC_MEM_FREE -> EXPECTED_ERRMSG_MEM_FREE
      [] tag = SPEC_MEM_DEREF -> EXPECTED_ERRMSG_MEM_DEREF
      [] tag = SPEC_MEM_MEMTRACK -> EXPECTED_ERRMSG_MEM_MEMTRACK

\* Test result t shows the signature of property tag.
ShowsViolation(t, tag) ==
    /\ t.returncode = ExpectedReturncode(tag)
    /\ Contains(ExpectedErrmsg(tag), t.stderr)

\* The properties of the specification whose signature t shows.
ViolationsShown(t, spec) == { tag \in Range(spec) : ShowsViolation(t, tag) }

\* The first property of set tags in the order of the registry.
FirstInRegistry(tags) ==
    SPECIFICATION_KEYS[CHOOSE i \in 1..Len(SPECIFICATION_KEYS) :
                          /\ SPECIFICATION_KEYS[i] \in tags
                          /\ \A j \in 1..(i - 1) : SPECIFICATION_KEYS[j] \notin tags]

\* C5: analyze_result accepts exactly when the test result shows the
\* signature (return code and message) of at least one property of the
\* specification, and then reports the first such property in the order
\* unreach-call, no-overflow, valid-free, valid-deref, valid-memtrack,
\* whatever the other properties of the specification make of the result.
C5_AcceptsFirstViolation ==
    outcomes # << >> =>
        LET shown == ViolationsShown(test_result, specification)
        IN  /\ result = RESULT_ACCEPT <=> shown # {}
            /\ shown # {} => new_violated_property = FirstInRegistry(shown)
            /\ shown = {} => new_violated_property = None
            /\ outcomes[Len(outcomes)] = << created_harnesses[idx], result, new_violated_property >>

\* C5, its case: valid-deref is reported although unreach-call and
\* valid-free, earlier in the registry, make the result UNKNOWN, and
\* valid-memtrack, later in the registry, accepts it as well.
C5_Witness ==
    /\ outcomes # << >>
    /\ result = RESULT_ACCEPT
    /\ new_violated_property = SPEC_MEM_DEREF
    /\ InList(SPEC_REACH, specification)
    /\ InList(SPEC_MEM_FREE, specification)
    /\ InList(SPEC_MEM_MEMTRACK, specification)
    /\ ~ShowsViolation(test_result, SPEC_MEM_FREE)

\* C6: a test that returned 0 is rejected (TRUE, no violated property) under
\* every specification and whatever it wrote to stderr.
C6_ReturncodeZeroIsRejected ==
    ( outcomes # << >> /\ test_result.returncode = 0 )
    => /\ result = RESULT_REJECT
       /\ new_violated_property = None
       /\ final_result = RESULT_REJECT

\* C6, its case: a test that returned 0 and wrote the message of a property
\* of the specification to stderr.
C6_Witness ==
    /\ outcomes # << >>
    /\ test_result.returncode = 0
    /\ InList(SPEC_OVERFLOW, specification)
    /\ Contains(EXPECTED_ERRMSG_OVERFLOW, test_result.stderr)
    /\ result = RESULT_REJECT

\* C7: a test that returned a code other than 0 (a negative one included)
\* and shows the signature of no property of the specification is classified
\* UNKNOWN, and the loop goes on to the next harness without an exception; a
\* run in which some harness was classified UNKNOWN never raises and never
\* prints the ERROR result.
C7_UnexpectedResultIsUnknown ==
    /\ [][ ( /\ pc = "analyze"
             /\ test_result.returncode # 0
             /\ ViolationsShown(test_result, specification) = {} )
           => ( /\ result' = RESULT_UNK
                /\ new_violated_property' = None
                /\ final_result' = RESULT_UNK
                /\ pc' = "loop"
                /\ exc' = None
                /\ idx' = idx ) ]_vars
    /\ []( (\E i \in 1..Len(outcomes) : outcomes[i][2] = RESULT_UNK)
           => /\ pc \notin { "raised", "crashed" }
              /\ exc = None
              /\ \A j \in 1..Len(printed) : printed[j].value # "ERROR" )

\* C7, its case: the first harness was killed by a signal and classified
\* UNKNOWN, and the second harness has been compiled.
C7_Witness ==
    /\ pc = "execute"
    /\ idx = 2
    /\ test_result.returncode < 0
    /\ outcomes = << << created_harnesses[1], RESULT_UNK, None >> >>

----------------------------------------------------------------------------
(* Properties of the loop of run() *)

\* C8: for every harness the compiler is run at most twice, first with
\* gnu11 and then with gnu90; the second run happens if and only if the
\* first one failed (after a failed first run it is the very next step).
C8_AtMostOneFallback ==
    \A k \in 1..Len(created_harnesses) :
        LET cc == CompileCallsFor(created_harnesses[k])
        IN  /\ Len(cc) <= 2
            /\ Len(cc) >= 1 => cc[1].c_version = "gnu11"
            /\ Len(cc) = 2 => cc[2].c_version = "gnu90" /\ ~cc[1].succeeded
            /\ (Len(cc) = 1 /\ ~cc[1].succeeded) => (pc = "compile_fallback" /\ k = idx)

\* C8, its case: a run in which one harness compiled at once and another
\* one only with gnu90.
C8_Witness ==
    /\ pc = "done"
    /\ \E k \in 1..Len(created_harnesses) :
          LET cc == CompileCallsFor(created_harnesses[k])
          IN  Len(cc) = 2 /\ cc[2].succeeded
    /\ \E k \in 1..Len(created_harnesses) :
          LET cc == CompileCallsFor(created_harnesses[k])
          IN  Len(cc) = 1 /\ cc[1].succeeded

\* The harnesses among the first n of the list for which a compiler run
\* succeeded.
CompiledAmong(n) ==
    { k \in 1..n : \E j \in 1..Len(calls) :
        /\ calls[j].cmd = "compile"
        /\ calls[j].harness = created_harnesses[k]
        /\ calls[j].succeeded }

\* C9: a harness that fails to compile twice is skipped without effect:
\* between two iterations none of the counters of the statistics counts it
\* (each counts only harnesses that compiled) and it has no outcome.
C9_SkippedHarnessIsNotCounted ==
    pc = "loop" =>
        /\ iter_count = Cardinality(CompiledAmong(idx))
        /\ compile_success_count = Cardinality(CompiledAmong(idx))
        /\ c11_success_count <= Cardinality(CompiledAmong(idx))
        /\ reject_count <= Cardinality(CompiledAmong(idx))
        /\ Len(outcomes) = Cardinality(CompiledAmong(idx))

\* C10: once a test has been run, stdout.txt and stderr.txt hold the stdout
\* and the stderr of the test that was run last, whether they are empty or
\* not (a file that does not exist holds nothing).
C10_CaptureFilesHoldLastTest ==
    (\E j \in 1..Len(calls) : calls[j].cmd = "test")
    => /\ stdout_file.content = test_result.stdout
       /\ stderr_file.content = test_result.stderr

----------------------------------------------------------------------------
(* Properties of create_compile_cmd *)

\* How often the flag occurs in the compile command built last.
FlagCount(flag) == Cardinality({ i \in 1..Len(compile_cmd) : compile_cmd[i] = flag })

OverflowActive == InList(SPEC_OVERFLOW, specification)

MemoryActive ==
    \E tag \in { SPEC_MEM_FREE, SPEC_MEM_DEREF, SPEC_MEM_MEMTRACK } : InList(tag, specification)

\* C11: a compile command holds the two overflow sanitizer flags if and only
\* if no-overflow is among the properties, the address and leak sanitizer
\* flags if and only if one of valid-free, valid-deref, valid-memtrack is,
\* and -fno-sanitize-recover exactly once if one of these flags is there
\* (also when both families are) and not at all otherwise.
C11_SanitizerFlags ==
    compile_cmd # << >> =>
        /\ FlagCount("-fsanitize=signed-integer-overflow") = (IF OverflowActive THEN 1 ELSE 0)
        /\ FlagCount("-fsanitize=float-cast-overflow") = (IF OverflowActive THEN 1 ELSE 0)
        /\ FlagCount("-fsanitize=address") = (IF MemoryActive THEN 1 ELSE 0)
        /\ FlagCount("-fsanitize=leak") = (IF MemoryActive THEN 1 ELSE 0)
        /\ FlagCount("-fno-sanitize-recover") =
              (IF OverflowActive \/ MemoryActive THEN 1 ELSE 0)

\* C11, its case: a fallback command was built for a specification that
\* names properties of both families.
C11_Witness ==
    /\ compile_cmd # << >>
    /\ OverflowActive
    /\ MemoryActive
    /\ FlagCount("-std=gnu90") = 1
    /\ FlagCount("-fno-sanitize-recover") = 1

----------------------------------------------------------------------------
(* Properties of execute() *)

\* The child can neither write nor exit: the stream it has output left for
\* is full.
ChildBlocked ==
    /\ ~popen.exited
    /\ popen.to_stdout > 0 \/ popen.to_stderr > 0
    /\ popen.to_stdout > 0 => popen.stdout_pipe = PipeCapacity
    /\ popen.to_stderr > 0 => popen.stderr_pipe = PipeCapacity

\* C12: execute() never leaves the caller and the child blocked on each
\* other, the caller waiting for the child to exit and the child waiting for
\* room in a pipe, however much the child writes; so the call returns.
C12_CallerAndChildNeverBlockEachOther ==
    ~(popen.at = "wait" /\ ChildBlocked)

----------------------------------------------------------------------------
(* Properties of the compiler choice *)

\* C13: the compiler is chosen once for the run: every compile command that
\* is built after another one, for any harness and any of the two attempts,
\* names the compiler the earlier command named, also when clang appears on
\* or disappears from the search path during the run.
C13_OneCompilerPerRun ==
    [][ (compile_cmd # << >> /\ compile_cmd' # << >>) => compile_cmd'[1] = compile_cmd[1] ]_vars

----------------------------------------------------------------------------
(* Properties of the order of the harnesses *)

\* Harness h compiles, with one of the two standards.
Compiles(h) == HarnessBehaviours[h].primary = 0 \/ HarnessBehaviours[h].fallback = 0

\* The verdict of harness h whenever it is tested.
VerdictOf(h) == analyze_result(HarnessBehaviours[h].test, specification)[1]

\* The reduction of a set of harnesses: nothing compiles is an error;
\* otherwise one accepted harness makes the result FALSE, else one unknown
\* harness makes it UNKNOWN, else it is TRUE.
Reduction(hs) ==
    LET compiled == { h \in hs : Compiles(h) }
    IN  IF compiled = {} THEN "ERROR"
        ELSE IF \E h \in compiled : VerdictOf(h) = RESULT_ACCEPT THEN RESULT_ACCEPT
        ELSE IF \E h \in compiled : VerdictOf(h) = RESULT_UNK THEN RESULT_UNK
        ELSE RESULT_REJECT

\* C14: the result a run prints is the reduction of the set of harnesses,
\* whatever the order in which glob returned them and the loop processed
\* them, and also when the loop stopped at an accepted harness: every
\* order of one set gives the same result.
C14_VerdictIsOrderIndependent ==
    pc = "done" =>
        /\ Len(printed) > 0
        /\ printed[Len(printed)].line = "Verification result"
        /\ printed[Len(printed)].value = Reduction(Range(created_harnesses))

\* C14, its case: the harnesses were not processed in the order of their
\* numbers, the loop stopped at an accepted harness, and a harness it never
\* reached would have been unknown.
C14_Witness ==
    /\ pc = "done"
    /\ Len(created_harnesses) >= 2
    /\ created_harnesses[1] > created_harnesses[2]
    /\ final_result = RESULT_ACCEPT
    /\ \E h \in Range(created_harnesses) :
          /\ CallsFor(h) = << >>
          /\ Compiles(h)
          /\ VerdictOf(h) = RESULT_UNK

----------------------------------------------------------------------------
(* Properties of the memory-safety properties *)

\* The result analyze_result computes for the one property tag from the
\* test result at hand.
PerTagResult(tag) == results_and_violated_props(test_result, << tag >>)[1][1]

\* A test has been run.
TestWasRun == \E j \in 1..Len(calls) : calls[j].cmd = "test"

\* C15, as stated: valid-free, valid-deref and valid-memtrack have one
\* signature, so the three per-property results of a test result are the same.
C15_MemoryPropertiesAgree ==
    TestWasRun =>
        /\ PerTagResult(SPEC_MEM_FREE) = PerTagResult(SPEC_MEM_DEREF)
        /\ PerTagResult(SPEC_MEM_DEREF) = PerTagResult(SPEC_MEM_MEMTRACK)

\* C15, amended: valid-deref and valid-memtrack have one signature and the
\* same per-property result for every test result.  valid-free has their
\* return code and a longer message that contains theirs, so valid-free is
\* accepted only if they are, is rejected exactly when they are, and differs
\* from them exactly when the sanitizers' return code comes with their
\* message and without the longer one: then valid-free is unknown and they
\* are accepted.
C15_DerefAndMemtrackAgreeFreeIsStricter ==
    TestWasRun =>
        /\ PerTagResult(SPEC_MEM_DEREF) = PerTagResult(SPEC_MEM_MEMTRACK)
        /\ PerTagResult(SPEC_MEM_FREE) = RESULT_ACCEPT =>
              PerTagResult(SPEC_MEM_DEREF) = RESULT_ACCEPT
        /\ PerTagResult(SPEC_MEM_FREE) = RESULT_REJECT <=>
              PerTagResult(SPEC_MEM_DEREF) = RESULT_REJECT
        /\ PerTagResult(SPEC_MEM_FREE) # PerTagResult(SPEC_MEM_DEREF) <=>
              /\ test_result.returncode = RETURNCODE_SANITIZER
              /\ Contains(EXPECTED_ERRMSG_MEM_DEREF, test_result.stderr)
              /\ ~Contains(EXPECTED_ERRMSG_MEM_FREE, test_result.stderr)
        /\ PerTagResult(SPEC_MEM_FREE) # PerTagResult(SPEC_MEM_DEREF) =>
              /\ PerTagResult(SPEC_MEM_FREE) = RESULT_UNK
              /\ PerTagResult(SPEC_MEM_DEREF) = RESULT_ACCEPT

\* C15, its case: a test was analysed for valid-free and valid-deref, and
\* it was accepted for valid-deref while valid-free alone is unknown.
C15_Witness ==
    /\ pc = "done"
    /\ InList(SPEC_MEM_FREE, specification)
    /\ InList(SPEC_MEM_DEREF, specification)
    /\ result = RESULT_ACCEPT
    /\ new_violated_property = SPEC_MEM_DEREF
    /\ PerTagResult(SPEC_MEM_FREE) = RESULT_UNK

----------------------------------------------------------------------------
(* Properties of get_spec *)

\* Where the LTL part of the match begins: ".*" is greedy, so it is the last
\* place where the init part can end.
LtlStart(content) ==
    CHOOSE i \in 3..Len(content) :
        /\ content[i] = ")," /\ i + 1 <= Len(content) /\ content[i + 1] = "LTL("
        /\ \E k \in (i + 3)..Len(content) : content[k] \in { ")", ")," }
        /\ \A j \in (i + 1)..Len(content) :
              ~(/\ content[j] = ")," /\ j + 1 <= Len(content) /\ content[j + 1] = "LTL("
                /\ \E k \in (j + 3)..Len(content) : content[k] \in { ")", ")," })

\* spec_matches.group(1), the text the match of line 382 captures as the
\* formula: ".+" is greedy as well, so it goes up to the last closing
\* parenthesis of the content.
LtlFormula(content) ==
    LET i == LtlStart(content)
        k == CHOOSE k \in (i + 3)..Len(content) :
                 /\ content[k] \in { ")", ")," }
                 /\ \A j \in (k + 1)..Len(content) : content[j] \notin { ")", ")," }
    IN  SubSeq(content, i + 2, k - 1)

\* C16: the properties get_spec returned are those whose pattern is found
\* in the formula of a document of the form CHECK(init(...), LTL(formula));
\* a pattern that occurs only outside the formula, such as in the init
\* part, adds no property.
C16_PropertiesAreThoseOfTheLtlFormula ==
    specification # << >> =>
        LET content == args.specification_file.content
        IN  \A tag \in Range(SPECIFICATION_KEYS) :
                InList(tag, specification) <=>
                    /\ SpecMatches(content)
                    /\ RegexSearch(SPECIFICATIONS[tag], LtlFormula(content))

----------------------------------------------------------------------------
(* Properties of the order of the child processes *)

\* The places in calls of the compiler and test runs.
HarnessCalls == { j \in 1..Len(calls) : calls[j].harness # NoHarness }

\* How many tests have been run before place j of calls.
TestsBefore(j) == Cardinality({ i \in 1..(j - 1) : calls[i].cmd = "test" })

\* C17: the test of a harness is run at most once, and the call before it
\* is a compiler run for the same harness that returned 0; the calls for
\* one harness are not interleaved with those of another, the harnesses
\* come in the order of the list, and when a compiler run for a harness
\* begins, every test run before it has been classified.  The calls are
\* made one after the other, each one returning before the next is made.
C17_OneTestAfterSuccessfulCompile ==
    /\ \A h \in Range(created_harnesses) :
          Cardinality({ j \in HarnessCalls : calls[j].harness = h /\ calls[j].cmd = "test" }) <= 1
    /\ \A j \in HarnessCalls :
          calls[j].cmd = "test" =>
              /\ j > 1
              /\ calls[j - 1].cmd = "compile"
              /\ calls[j - 1].harness = calls[j].harness
              /\ calls[j - 1].succeeded
    /\ \A i, j \in HarnessCalls :
          i < j => PositionOf(calls[i].harness) <= PositionOf(calls[j].harness)
    /\ \A j \in HarnessCalls :
          calls[j].cmd = "compile" =>
              /\ TestsBefore(j) <= Len(outcomes)
              /\ \A i \in 1..TestsBefore(j) :
                    PositionOf(outcomes[i][1]) < PositionOf(calls[j].harness)
    /\ Len(outcomes) <= TestsBefore(Len(calls) + 1)
    /\ pc = "analyze" <=> Len(outcomes) < TestsBefore(Len(calls) + 1)

\* C17, its case: a harness whose first compiler run failed and whose
\* second one returned 0 was tested and classified, and then the compiler
\* was run for the next harness.
C17_Witness ==
    \E j \in HarnessCalls :
        /\ j + 3 <= Len(calls)
        /\ calls[j].cmd = "compile" /\ ~calls[j].succeeded
        /\ calls[j + 1].cmd = "compile" /\ calls[j + 1].succeeded
        /\ calls[j + 2].cmd = "test"
        /\ calls[j + 3].cmd = "compile"
        /\ calls[j + 3].harness # calls[j].harness
        /\ \E i \in 1..Len(outcomes) : outcomes[i][1] = calls[j].harness

----------------------------------------------------------------------------
(* Properties of the counters *)

\* How many test runs analyze_result has given the verdict v.
OutcomeCount(v) == Cardinality({ i \in 1..Len(outcomes) : outcomes[i][2] = v })

----------------------------------------------------------------------------
(* Properties of the report *)

\* run() has printed its report: the run ended with a result line that is
\* not the one of the handler of ValidationError.
ReportPrinted ==
    /\ pc = "done"
    /\ Len(printed) > 0
    /\ printed[Len(printed)].line = "Verification result"
    /\ printed[Len(printed)].value # "ERROR"

\* The harnesses named in a line "Harness ... was successful".
HarnessesReported ==
    { printed[i].harness : i \in { j \in 1..Len(printed) : printed[j].line = "Harness was successful" } }

\* C19: in the report of run(), a violated property is named if and only if
\* the result is FALSE, and a successful harness is named if and only if
\* the result is FALSE; the property is one of the specification, and it is
\* the property analyze_result returned, with FALSE, for the test of the
\* harness that is named.
C19_PropertyAndHarnessIffConfirmed ==
    ReportPrinted =>
        LET last == printed[Len(printed)]
        IN  /\ last.value = final_result
            /\ last.property # None <=> last.value = RESULT_ACCEPT
            /\ HarnessesReported # {} <=> last.value = RESULT_ACCEPT
            /\ last.value = RESULT_ACCEPT =>
                  /\ InList(last.property, specification)
                  /\ \E h \in Range(created_harnesses) :
                        /\ HarnessesReported = { h }
                        /\ \E i \in 1..Len(outcomes) :
                              outcomes[i] = << h, RESULT_ACCEPT, last.property >>
                        /\ h = created_harnesses[idx]
                        /\ analyze_result(test_result, specification)
                              = << RESULT_ACCEPT, last.property >>

\* C19, its case: the report names a harness that is not the first of the
\* list and a property that is not the first of the specification.
C19_Witness ==
    /\ ReportPrinted
    /\ printed[Len(printed)].value = RESULT_ACCEPT
    /\ Len(specification) >= 2
    /\ printed[Len(printed)].property # specification[1]
    /\ Len(created_harnesses) >= 2
    /\ HarnessesReported = { created_harnesses[2] }

\* The lines "Verification result: ..." printed so far.
ResultLines == { i \in 1..Len(printed) : printed[i].line = "Verification result" }

\* C20: a run that prints the report of run() has a final result that is
\* one of FALSE, TRUE and UNKNOWN, because a harness was compiled, tested
\* and classified; and every run, however it ends, has printed exactly one
\* line "Verification result".
C20_ExactlyOneResultLine ==
    /\ ReportPrinted =>
          /\ final_result \in { RESULT_ACCEPT, RESULT_REJECT, RESULT_UNK }
          /\ compile_success_count >= 1
          /\ Len(outcomes) >= 1
    /\ Cardinality(ResultLines) <= 1
    /\ pc \in { "done", "crashed" } => Cardinality(ResultLines) = 1

====
